---- MODULE Spec2Model ----
(***************************************************************************)
(* IMDb data profiling: the in-memory engine (imdb_data_profiling.py) and  *)
(* the distributed engine (imdb_profiling_databricks.py).                  *)
(*                                                                         *)
(* A DataFrame is [columns |-> <<name, ...>>, rows |-> <<row, ...>>], a    *)
(* row being a tuple of cells aligned with columns.  A cell is a string,  *)
(* written as the sequence of its characters, or NaN (the null the loader  *)
(* made of the \N marker).  Percentages and averages, which the code       *)
(* rounds to 2 decimals, are integers counting hundredths.                 *)
(***************************************************************************)
EXTENDS Integers, Sequences, FiniteSets, TLC

VARIABLES
    DATASETS,         \* the catalog main() iterates: a sequence of configs
    files,            \* the raw data directory: file name -> what is on disk
    ydata_installed,  \* whether `from ydata_profiling import ...` succeeds
    pc,               \* main(): "loop", "done" or "aborted"
    idx,              \* main(): position of the for loop in DATASETS
    processed,        \* main(): dataset names whose iteration has started
    all_stats,        \* main(): ordered dict, a sequence of <<name, stats>>
    html_reports,     \* html files written by generate_ydata_report
    summary,          \* the written summary (None until it is written)
    exc,              \* the exception that ended main(), or "none"
    df,               \* engine run: the DataFrame handed to the engines
    config,           \* engine run: its dataset config
    phase,            \* engine run: "input", "manual" or "notebook"
    manual,           \* engine run: outcome of profile_dataset_manual
    notebook          \* engine run: outcome of one notebook loop body

vars == <<DATASETS, files, ydata_installed, pc, idx, processed, all_stats,
          html_reports, summary, exc, df, config, phase, manual, notebook>>

mainVars == <<DATASETS, files, ydata_installed, pc, idx, processed, all_stats,
              html_reports, summary, exc>>

engineVars == <<df, config, phase, manual, notebook>>

(***************************************************************************)
(* Bounds of the model.                                                    *)
(***************************************************************************)
MaxRows == 3        \* rows of a key DataFrame
MaxMVRows == 2      \* rows of a multi-value DataFrame
CatalogLen == 2     \* entries of the catalog
MaxSampleRows == 7  \* rows of a sampled column
LongRows == 1002    \* rows of a column longer than the numeric sample

(***************************************************************************)
(* Values.                                                                 *)
(***************************************************************************)
NaN == <<"\\N">>
None == "None"
SEP == ","

IsNa(cell) == cell = NaN

\* a Python value that is a str, and one that is a list: a dict entry that
\* holds either carries which it is
Str(name) == <<"str", name>>
List(names) == <<"list", names>>

RECURSIVE SeqSum(_)
SeqSum(s) == IF s = <<>> THEN 0 ELSE Head(s) + SeqSum(Tail(s))

RECURSIVE SeqFilter(_, _)
\* the elements of s that are in set keep, in order
SeqFilter(s, keep) ==
    IF s = <<>> THEN <<>>
    ELSE IF Head(s) \in keep THEN <<Head(s)>> \o SeqFilter(Tail(s), keep)
         ELSE SeqFilter(Tail(s), keep)

Range(s) == {s[i] : i \in DOMAIN s}

SeqMin(s) == CHOOSE m \in Range(s) : \A x \in Range(s) : m <= x
SeqMax(s) == CHOOSE m \in Range(s) : \A x \in Range(s) : m >= x

\* round(num / den, 0) by round-half-even, den > 0, num >= 0
RoundHalfEven(num, den) ==
    LET q == num \div den
        r == num % den
    IN  IF 2 * r < den THEN q
        ELSE IF 2 * r > den THEN q + 1
        ELSE IF q % 2 = 0 THEN q ELSE q + 1

\* round((num / den) * 100, 2) in hundredths
Pct(num, den) == RoundHalfEven(num * 10000, den)

(***************************************************************************)
(* DataFrame access.                                                       *)
(***************************************************************************)
HasColumn(d, col) == \E i \in DOMAIN d.columns : d.columns[i] = col

ColIndex(d, col) == CHOOSE i \in DOMAIN d.columns : d.columns[i] = col

\* df[col]: the column as a sequence of cells in row order
Series(d, col) == [i \in DOMAIN d.rows |-> d.rows[i][ColIndex(d, col)]]

\* Series.dropna(): the non-null cells in row order
DropNa(s) == SelectSeq(s, LAMBDA x : ~IsNa(x))

IsNaSum(s) == Cardinality({i \in DOMAIN s : IsNa(s[i])})

\* NUnique with null counted as a value
NUnique_NullIsValue(s) == Cardinality(Range(s))

NUnique(s) == Cardinality(Range(s) \ {NaN})

Head5(s) == IF Len(s) <= 5 THEN s ELSE SubSeq(s, 1, 5)

(***************************************************************************)
(* String operations on character sequences.                               *)
(***************************************************************************)
UpperChars == <<"A","B","C","D","E","F","G","H","I","J","K","L","M",
                "N","O","P","Q","R","S","T","U","V","W","X","Y","Z">>
LowerChars == <<"a","b","c","d","e","f","g","h","i","j","k","l","m",
                "n","o","p","q","r","s","t","u","v","w","x","y","z">>
Digits == {"0","1","2","3","4","5","6","7","8","9"}

RECURSIVE LStrip(_)
LStrip(s) == IF s # <<>> /\ Head(s) = " " THEN LStrip(Tail(s)) ELSE s

RECURSIVE RStrip(_)
RStrip(s) ==
    IF s # <<>> /\ s[Len(s)] = " " THEN RStrip(SubSeq(s, 1, Len(s) - 1)) ELSE s

\* str.strip() / F.trim
Strip(s) == RStrip(LStrip(s))

\* str.lower()
Lower(s) ==
    [i \in DOMAIN s |->
        IF \E k \in DOMAIN UpperChars : UpperChars[k] = s[i]
        THEN LowerChars[CHOOSE k \in DOMAIN UpperChars : UpperChars[k] = s[i]]
        ELSE s[i]]

\* pd.to_numeric(..., errors="coerce").notna() on one string: decimal digits
\* with an optional sign and an optional decimal point (exponents and the
\* words inf and nan do not occur in the cells of the model)
IsNumericStr(s) ==
    LET t == Strip(s)
        u == IF t # <<>> /\ Head(t) \in {"-", "+"} THEN Tail(t) ELSE t
        dots == {i \in DOMAIN u : u[i] = "."}
    IN  /\ \E i \in DOMAIN u : u[i] \in Digits
        /\ \A i \in DOMAIN u : u[i] \in Digits \cup {"."}
        /\ Cardinality(dots) <= 1

RECURSIVE Split(_, _)
\* str.split(sep) for a one-character separator: empty tokens are kept
Split(s, sep) ==
    IF \A i \in DOMAIN s : s[i] # sep THEN <<s>>
    ELSE LET i == CHOOSE k \in DOMAIN s :
                     s[k] = sep /\ \A j \in 1..(k - 1) : s[j] # sep
         IN  <<SubSeq(s, 1, i - 1)>> \o Split(SubSeq(s, i + 1, Len(s)), sep)

RECURSIVE Explode(_)
\* Series.explode() / F.explode: the token lists flattened in row order
Explode(lists) ==
    IF lists = <<>> THEN <<>> ELSE Head(lists) \o Explode(Tail(lists))

Occurrences(s, v) == Cardinality({i \in DOMAIN s : s[i] = v})

RECURSIVE CountOrders(_, _)
\* the arrangements of the values S by descending count in s, those of
\* equal count in any order
CountOrders(S, s) ==
    IF S = {} THEN {<<>>}
    ELSE LET top == {v \in S : \A w \in S :
                                  Occurrences(s, w) <= Occurrences(s, v)}
         IN  UNION {{<< <<v, Occurrences(s, v)>> >> \o t :
                        t \in CountOrders(S \ {v}, s)} : v \in top}

\* Series.value_counts(): <<value, count>> by descending count, NaN dropped.
\* The counts are sorted by sort_values with numpy's default sort, which is
\* not stable, over keys in hash-table order: the order among equal counts
\* is not defined, so this is the set of outcomes
ValueCounts(s) == CountOrders(Range(s) \ {NaN}, s)

Head10(s) == IF Len(s) <= 10 THEN s ELSE SubSeq(s, 1, 10)
Head1000(s) == IF Len(s) <= 1000 THEN s ELSE SubSeq(s, 1, 1000)

(***************************************************************************)
(* profile_dataset_manual: per-column analysis.                            *)
(***************************************************************************)
\* lines 87 and 91-93 divide by len(df).  null_count is a numpy integer,
\* whose division by zero yields nan; nunique() is a Python int, whose
\* division by zero raises ZeroDivisionError.
NullPercentage(d, col) ==
    IF Len(d.rows) = 0 THEN "nan"
    ELSE Pct(IsNaSum(Series(d, col)), Len(d.rows))

CardinalityRaises(d) == Len(d.rows) = 0

CardinalityRatio(d, col) == Pct(NUnique(Series(d, col)), Len(d.rows))

\* SampleValues without the dropna()
SampleValues_WithNulls(d, col) == Head5(Series(d, col))

SampleValues(d, col) == Head5(DropNa(Series(d, col)))

LiteralCount(d, col, lit) ==
    LET s == Series(d, col)
    IN  Cardinality({i \in DOMAIN s : ~IsNa(s[i]) /\ Lower(Strip(s[i])) = lit})

EmptyStringCount(d, col) ==
    LET s == Series(d, col)
    IN  Cardinality({i \in DOMAIN s : ~IsNa(s[i]) /\ Strip(s[i]) = <<>>})

\* LikelyNumeric with the threshold reached at 80%
LikelyNumeric_AtLeast(d, col) ==
    LET sample == Head1000(DropNa(Series(d, col)))
        numeric_count ==
            Cardinality({i \in DOMAIN sample : IsNumericStr(sample[i])})
    IN  10 * numeric_count >= 8 * Len(sample)

LikelyNumeric(d, col) ==
    LET sample == Head1000(DropNa(Series(d, col)))
        numeric_count ==
            Cardinality({i \in DOMAIN sample : IsNumericStr(sample[i])})
    IN  10 * numeric_count > 8 * Len(sample)

ColStats(d, col) ==
    [pandas_dtype          |-> "object",
     null_count            |-> IsNaSum(Series(d, col)),
     null_percentage       |-> NullPercentage(d, col),
     unique_count          |-> NUnique(Series(d, col)),
     cardinality_ratio     |-> CardinalityRatio(d, col),
     sample_values         |-> SampleValues(d, col),
     empty_string_count    |-> EmptyStringCount(d, col),
     none_literal_count    |-> LiteralCount(d, col, <<"n","o","n","e">>),
     unknown_literal_count |->
         LiteralCount(d, col, <<"u","n","k","n","o","w","n">>),
     likely_numeric        |-> LikelyNumeric(d, col)]

\* the for loop of lines 78-115 raises in its first iteration, if at all
ColumnLoopRaises(d) == d.columns # <<>> /\ CardinalityRaises(d)

ColumnLoop(d) == [col \in Range(d.columns) |-> ColStats(d, col)]

(***************************************************************************)
(* profile_dataset_manual: multi-value field analysis.                     *)
(***************************************************************************)
\* non_null.str.split(sep): one token list per non-null cell
SplitCells(d, col, sep) ==
    LET non_null == DropNa(Series(d, col))
    IN  [i \in DOMAIN non_null |-> Split(non_null[i], sep)]

\* value_counts = non_null.str.split(sep).str.len()
TokenCounts(d, col, sep) ==
    LET lists == SplitCells(d, col, sep)
    IN  [i \in DOMAIN lists |-> Len(lists[i])]

\* non_null.str.split(sep).explode()
Exploded(d, col, sep) == Explode(SplitCells(d, col, sep))

\* the top_10_values value_counts().head(10) can give
Top10Values(d, col, sep) ==
    {Head10(v) : v \in ValueCounts(Exploded(d, col, sep))}

\* multi_value_stats[col], with the top-10 chosen
MVStats(d, col, sep, top_10) ==
    LET value_counts == TokenCounts(d, col, sep)
        exploded == Exploded(d, col, sep)
    IN  [min_values_per_row |->
             IF Len(value_counts) > 0 THEN SeqMin(value_counts) ELSE 0,
         max_values_per_row |->
             IF Len(value_counts) > 0 THEN SeqMax(value_counts) ELSE 0,
         avg_values_per_row |->
             IF Len(value_counts) > 0
             THEN RoundHalfEven(SeqSum(value_counts) * 100, Len(value_counts))
             ELSE 0,
         total_distinct_values |-> NUnique(exploded),
         top_10_values |-> top_10]

\* what multi_value_stats[col] can be
MVOutcomes(d, col, sep) ==
    {MVStats(d, col, sep, t) : t \in Top10Values(d, col, sep)}

\* the columns the loop of lines 118-142 analyses
MVPresent(d, cfg) ==
    {c \in Range(cfg.multi_value_columns) : HasColumn(d, c)}

\* MultiValueAnalysis with an all-zero entry for a configured column the
\* DataFrame lacks
MVPlaceholderOutcomes(d, c, sep) ==
    IF HasColumn(d, c) THEN MVOutcomes(d, c, sep)
    ELSE {[min_values_per_row |-> 0, max_values_per_row |-> 0,
           avg_values_per_row |-> 0, total_distinct_values |-> 0,
           top_10_values |-> <<>>]}

RECURSIVE MVPlaceholderLoop(_, _, _)
MVPlaceholderLoop(d, cols, sep) ==
    IF cols = {} THEN {<<>>}
    ELSE LET c == CHOOSE x \in cols : TRUE
         IN  {(c :> o) @@ r : o \in MVPlaceholderOutcomes(d, c, sep),
                              r \in MVPlaceholderLoop(d, cols \ {c}, sep)}

MultiValueAnalysis_Placeholder(d, cfg) ==
    MVPlaceholderLoop(d, Range(cfg.multi_value_columns),
                      cfg.multi_value_separator)

RECURSIVE MVLoop(_, _, _)
\* the multi_value_stats the loop of lines 118-142 can build over the
\* columns cols
MVLoop(d, cols, sep) ==
    IF cols = {} THEN {<<>>}
    ELSE LET c == CHOOSE x \in cols : TRUE
         IN  {(c :> o) @@ r : o \in MVOutcomes(d, c, sep),
                              r \in MVLoop(d, cols \ {c}, sep)}

MultiValueAnalysis(d, cfg) ==
    MVLoop(d, MVPresent(d, cfg), cfg.multi_value_separator)

(***************************************************************************)
(* profile_dataset_manual: primary key validation.                         *)
(***************************************************************************)
\* `if pk:` and `elif ck:`; a composite key that is missing, None or empty
\* is <<>> here, all three being false in the code
PkConfigured(cfg) == cfg.primary_key # None
CkConfigured(cfg) == cfg.composite_key # <<>>

\* df[ck]: one key tuple per row
KeyTuples(d, ck) ==
    [i \in DOMAIN d.rows |-> [k \in DOMAIN ck |-> d.rows[i][ColIndex(d, ck[k])]]]

\* Series.duplicated().sum() / DataFrame.duplicated(subset).sum(): every
\* occurrence after the first, NaN being equal to NaN
DuplicatedSum(keys) ==
    Cardinality({i \in DOMAIN keys : \E j \in 1..(i - 1) : keys[j] = keys[i]})

\* df[ck].isna().any(axis=1).sum()
AnyNaSum(keys) ==
    Cardinality({i \in DOMAIN keys : \E k \in DOMAIN keys[i] : IsNa(keys[i][k])})

\* IsValidPk with the null count left out of the test
IsValidPk_DupesOnly(nulls, dupes) == dupes = 0

IsValidPk(nulls, dupes) == nulls = 0 /\ dupes = 0

PkStats(d, pk) ==
    LET pk_nulls == IsNaSum(Series(d, pk))
        pk_dupes == DuplicatedSum(Series(d, pk))
    IN  [column          |-> Str(pk),
         null_count      |-> pk_nulls,
         duplicate_count |-> pk_dupes,
         is_valid_pk     |-> IsValidPk(pk_nulls, pk_dupes)]

CkStats(d, ck) ==
    LET ck_nulls == AnyNaSum(KeyTuples(d, ck))
        ck_dupes == DuplicatedSum(KeyTuples(d, ck))
    IN  [column          |-> List(ck),
         null_count      |-> ck_nulls,
         duplicate_count |-> ck_dupes,
         is_valid_pk     |-> IsValidPk(ck_nulls, ck_dupes)]

\* KeyBranch with the composite key tested first
KeyBranch_CompositeFirst(cfg) ==
    IF CkConfigured(cfg) THEN "ck"
    ELSE IF PkConfigured(cfg) THEN "pk"
    ELSE "none"

\* which branch of lines 148-165 runs: "pk", "ck" or "none"
KeyBranch(cfg) ==
    IF PkConfigured(cfg) THEN "pk"
    ELSE IF CkConfigured(cfg) THEN "ck"
    ELSE "none"

\* df[pk] and df[ck] raise KeyError for a column the DataFrame lacks
KeyBlockRaises(d, cfg) ==
    CASE KeyBranch(cfg) = "pk" -> ~HasColumn(d, cfg.primary_key)
      [] KeyBranch(cfg) = "ck" ->
             \E k \in DOMAIN cfg.composite_key :
                 ~HasColumn(d, cfg.composite_key[k])
      [] OTHER -> FALSE

\* the entries the key block adds to stats
KeyBlock(d, cfg) ==
    CASE KeyBranch(cfg) = "pk" -> "primary_key" :> PkStats(d, cfg.primary_key)
      [] KeyBranch(cfg) = "ck" -> "primary_key" :> CkStats(d, cfg.composite_key)
      [] OTHER -> <<>>

(***************************************************************************)
(* profile_dataset_manual.  An outcome is [exc, stats]: the exception      *)
(* raised ("none" when it returns) and the stats returned.  The outcomes   *)
(* differ only in the order of equal counts in a top-10.                   *)
(***************************************************************************)
profile_dataset_manual(dataset_name, d, cfg) ==
    IF ColumnLoopRaises(d)
    THEN {[exc |-> "ZeroDivisionError", stats |-> None]}
    ELSE IF KeyBlockRaises(d, cfg)
    THEN {[exc |-> "KeyError", stats |-> None]}
    ELSE {[exc |-> "none",
           stats |->
               [dataset              |-> dataset_name,
                description          |-> cfg.description,
                file                 |-> cfg.file,
                row_count            |-> Len(d.rows),
                column_count         |-> Len(d.columns),
                columns              |-> ColumnLoop(d),
                multi_value_analysis |-> mv]
               @@ KeyBlock(d, cfg)] : mv \in MultiValueAnalysis(d, cfg)}

(***************************************************************************)
(* The distributed engine.  Its config keys pk, composite_pk and mv_cols   *)
(* are the fields primary_key, composite_key and multi_value_columns.      *)
(***************************************************************************)
\* F.round(x, 2) rounds half up; num / den * 100 in hundredths
RoundHalfUp(num, den) ==
    LET q == num \div den
        r == num % den
    IN  IF 2 * r >= den THEN q + 1 ELSE q

\* a division by a zero total_rows is NULL in Spark SQL
SparkPct(num, den) ==
    IF den = 0 THEN "NULL" ELSE RoundHalfUp(num * 10000, den)

\* F.countDistinct(col): the distinct non-null values
CountDistinct(s) == Cardinality(Range(s) \ {NaN})

\* one Row of profile_columns
SparkColStats(d, col) ==
    LET s == Series(d, col)
        total_rows == Len(d.rows)
    IN  [total_rows         |-> total_rows,
         null_count         |-> IsNaSum(s),
         null_pct           |-> SparkPct(IsNaSum(s), total_rows),
         unique_count       |-> CountDistinct(s),
         cardinality_pct    |-> SparkPct(CountDistinct(s), total_rows),
         empty_string_count |->
             Cardinality({i \in DOMAIN s : ~IsNa(s[i]) /\ Strip(s[i]) = <<>>}),
         none_literal_count |->
             Cardinality({i \in DOMAIN s :
                 ~IsNa(s[i]) /\ Lower(Strip(s[i])) = <<"n","o","n","e">>})]

profile_columns(d) == [col \in Range(d.columns) |-> SparkColStats(d, col)]

\* df.groupBy(key).count().filter(F.col("count") > 1).count(): the number of
\* key values that occur more than once, null being a key value of its own
GroupsOverOne(keys) ==
    Cardinality({v \in Range(keys) : Occurrences(keys, v) > 1})

\* df.filter(F.col(cpk[0]).isNull() | F.col(cpk[1]).isNull()).count()
FirstTwoNullCount(keys) ==
    Cardinality({i \in DOMAIN keys : IsNa(keys[i][1]) \/ IsNa(keys[i][2])})

SparkIsValid(null_count, dupe_count) == null_count = 0 /\ dupe_count = 0

\* the exception profile_primary_key raises, or "none": a column the
\* DataFrame lacks, or cpk[1] of a one-column composite key
PrimaryKeyRaises(d, cfg) ==
    CASE PkConfigured(cfg) ->
             IF HasColumn(d, cfg.primary_key) THEN "none"
             ELSE "AnalysisException"
      [] ~PkConfigured(cfg) /\ CkConfigured(cfg) ->
             IF Len(cfg.composite_key) < 2 THEN "IndexError"
             ELSE IF \E k \in DOMAIN cfg.composite_key :
                         ~HasColumn(d, cfg.composite_key[k])
             THEN "AnalysisException"
             ELSE "none"
      [] OTHER -> "none"

\* profile_primary_key when it returns: a dict, or None
profile_primary_key(d, cfg) ==
    IF PkConfigured(cfg)
    THEN LET null_count == IsNaSum(Series(d, cfg.primary_key))
             dupe_count == GroupsOverOne(Series(d, cfg.primary_key))
         IN  [key_columns     |-> Str(cfg.primary_key),
              null_count      |-> null_count,
              duplicate_count |-> dupe_count,
              is_valid        |-> SparkIsValid(null_count, dupe_count)]
    ELSE IF CkConfigured(cfg)
    THEN LET keys == KeyTuples(d, cfg.composite_key)
             null_count == FirstTwoNullCount(keys)
             dupe_count == GroupsOverOne(keys)
         IN  [key_columns     |-> List(cfg.composite_key),
              null_count      |-> null_count,
              duplicate_count |-> dupe_count,
              is_valid        |-> SparkIsValid(null_count, dupe_count)]
    ELSE None

\* F.split(F.col(col_name), separator): empty tokens are kept
SparkSplit(s, sep) == Split(s, sep)

\* split_lengths: F.size(F.split(...)) of every non-null cell
SplitLengths(d, col, sep) ==
    LET non_null == DropNa(Series(d, col))
    IN  [i \in DOMAIN non_null |-> Len(SparkSplit(non_null[i], sep))]

\* exploded: the tokens of the non-null cells, those blank after F.trim
\* filtered out
SparkExploded(d, col, sep) ==
    LET non_null == DropNa(Series(d, col))
        tokens == Explode([i \in DOMAIN non_null |->
                              SparkSplit(non_null[i], sep)])
    IN  SeqFilter(tokens, {t \in Range(tokens) : Strip(t) # <<>>})

\* exploded.groupBy("value").count().orderBy(F.desc("count")).limit(10): the
\* order among equal counts is not defined, so this is the set of outcomes
SparkTop10(d, col, sep) ==
    LET exploded == SparkExploded(d, col, sep)
        values == Range(exploded)
        n == IF Cardinality(values) <= 10 THEN Cardinality(values) ELSE 10
    IN  {t \in [1..n -> {<<v, Occurrences(exploded, v)>> : v \in values}] :
            /\ \A i, j \in 1..n : i < j => t[i] # t[j] /\ t[i][2] >= t[j][2]
            /\ \A v \in values :
                   (\A i \in 1..n : t[i][1] # v) =>
                       \A i \in 1..n : t[i][2] >= Occurrences(exploded, v)}

\* float(length_stats["avg_values"]) raises TypeError for the None that
\* F.avg gives when the column has no non-null cell
MVColumnRaises(d, col) ==
    IF ~HasColumn(d, col) THEN "AnalysisException"
    ELSE IF DropNa(Series(d, col)) = <<>> THEN "TypeError"
    ELSE "none"

\* the first exception of the loop over mv_cols, or "none"
RECURSIVE MultiValueRaises(_, _)
MultiValueRaises(d, mv_cols) ==
    IF mv_cols = <<>> THEN "none"
    ELSE IF MVColumnRaises(d, Head(mv_cols)) # "none"
    THEN MVColumnRaises(d, Head(mv_cols))
    ELSE MultiValueRaises(d, Tail(mv_cols))

\* results[col_name] of profile_multi_value, with the top-10 chosen
SparkMVStats(d, col, sep, top_10) ==
    LET split_lengths == SplitLengths(d, col, sep)
    IN  [min_values_per_row    |-> SeqMin(split_lengths),
         max_values_per_row    |-> SeqMax(split_lengths),
         avg_values_per_row    |->
             RoundHalfUp(SeqSum(split_lengths) * 100, Len(split_lengths)),
         total_distinct_values |->
             Cardinality(Range(SparkExploded(d, col, sep))),
         top_10                |-> top_10]

\* what results[col_name] can be
SparkMVOutcomes(d, col, sep) ==
    {SparkMVStats(d, col, sep, t) : t \in SparkTop10(d, col, sep)}

\* the results profile_multi_value can return when it raises nothing
profile_multi_value(d, mv_cols, sep) ==
    LET cols == Range(mv_cols)
    IN  {r \in [cols -> UNION {SparkMVOutcomes(d, c, sep) : c \in cols}] :
            \A c \in cols : r[c] \in SparkMVOutcomes(d, c, sep)}

(***************************************************************************)
(* One pass of the notebook's loop body over a loaded DataFrame: column    *)
(* profiling, key validation, multi-value analysis.  The outcomes differ   *)
(* only in the order of equal counts in a top-10.                          *)
(***************************************************************************)
NotebookOutcomes(d, cfg) ==
    LET col_stats == profile_columns(d)
        pk_exc == PrimaryKeyRaises(d, cfg)
        pk_stored == KeyBranch(cfg) # "none"
        pk_result == profile_primary_key(d, cfg)
        mv_cols == cfg.multi_value_columns
        mv_exc == MultiValueRaises(d, mv_cols)
    IN  IF pk_exc # "none"
        THEN {[exc |-> pk_exc, col_stats |-> col_stats, pk_stored |-> FALSE,
               pk_result |-> None, mv_stored |-> FALSE, mv_results |-> <<>>]}
        ELSE IF mv_cols = <<>>
        THEN {[exc |-> "none", col_stats |-> col_stats,
               pk_stored |-> pk_stored, pk_result |-> pk_result,
               mv_stored |-> FALSE, mv_results |-> <<>>]}
        ELSE IF mv_exc # "none"
        THEN {[exc |-> mv_exc, col_stats |-> col_stats,
               pk_stored |-> pk_stored, pk_result |-> pk_result,
               mv_stored |-> FALSE, mv_results |-> <<>>]}
        ELSE {[exc |-> "none", col_stats |-> col_stats,
               pk_stored |-> pk_stored, pk_result |-> pk_result,
               mv_stored |-> TRUE, mv_results |-> r] :
                 r \in profile_multi_value(d, mv_cols, SEP)}

(***************************************************************************)
(* main() and what it calls.                                               *)
(***************************************************************************)
\* load_dataset: [exc, found, df].  The file is looked up as is, then with
\* .gz; pd.read_csv raises EmptyDataError for a file without a header line
load_dataset(cfg, fs) ==
    LET f == fs[cfg.file]
    IN  IF ~f.tsv /\ ~f.gz
        THEN [exc |-> "none", found |-> FALSE, df |-> f.content]
        ELSE IF ~f.has_header
        THEN [exc |-> "EmptyDataError", found |-> FALSE, df |-> f.content]
        ELSE [exc |-> "none", found |-> TRUE, df |-> f.content]

\* all_stats[dataset_name] = stats on an insertion-ordered dict
DictPut(dict, key, value) ==
    IF \E i \in DOMAIN dict : dict[i][1] = key
    THEN [i \in DOMAIN dict |->
             IF dict[i][1] = key THEN <<key, value>> ELSE dict[i]]
    ELSE Append(dict, <<key, value>>)

DictKeys(dict) == [i \in DOMAIN dict |-> dict[i][1]]

\* generate_ydata_report: the html files after the call
generate_ydata_report(reports, dataset_name, installed) ==
    IF ~installed THEN reports ELSE Append(reports, dataset_name)

\* generate_summary_markdown: the overview table and the total of its rows
generate_summary_markdown(stats) ==
    [written    |-> TRUE,
     overview   |-> [i \in DOMAIN stats |->
                        <<stats[i][1], stats[i][2].row_count>>],
     total_rows |-> SeqSum([i \in DOMAIN stats |-> stats[i][2].row_count])]

NoSummary == [written |-> FALSE, overview |-> <<>>, total_rows |-> 0]

\* one iteration of the for loop of main(), lines 352-370
Iterate ==
    /\ pc = "loop"
    /\ idx <= Len(DATASETS)
    /\ LET cfg == DATASETS[idx]
           loaded == load_dataset(cfg, files)
       IN  /\ processed' = Append(processed, cfg.name)
           /\ IF loaded.exc # "none"
              THEN /\ pc' = "aborted"
                   /\ exc' = loaded.exc
                   /\ UNCHANGED <<idx, all_stats, html_reports>>
              ELSE IF ~loaded.found
              THEN /\ idx' = idx + 1
                   /\ UNCHANGED <<pc, exc, all_stats, html_reports>>
              ELSE \E out \in profile_dataset_manual(cfg.name, loaded.df, cfg) :
                   IF out.exc # "none"
                   THEN /\ pc' = "aborted"
                        /\ exc' = out.exc
                        /\ UNCHANGED <<idx, all_stats, html_reports>>
                   ELSE /\ all_stats' = DictPut(all_stats, cfg.name, out.stats)
                        /\ html_reports' =
                               generate_ydata_report(html_reports, cfg.name,
                                                     ydata_installed)
                        /\ idx' = idx + 1
                        /\ UNCHANGED <<pc, exc>>
    /\ UNCHANGED <<DATASETS, files, ydata_installed, summary>>
    /\ UNCHANGED engineVars

\* the rest of main(), lines 372-386
Summarise ==
    /\ pc = "loop"
    /\ idx > Len(DATASETS)
    /\ summary' = generate_summary_markdown(all_stats)
    /\ pc' = "done"
    /\ UNCHANGED <<DATASETS, files, ydata_installed, idx, processed,
                   all_stats, html_reports, exc>>
    /\ UNCHANGED engineVars

(***************************************************************************)
(* The engines applied to one DataFrame.                                   *)
(***************************************************************************)
NoOutcome == [exc |-> "none", stats |-> None]

NoNotebook ==
    [exc |-> "none", col_stats |-> <<>>, pk_stored |-> FALSE,
     pk_result |-> None, mv_stored |-> FALSE, mv_results |-> <<>>]

ProfileManual ==
    /\ phase = "input"
    /\ manual' \in profile_dataset_manual(config.name, df, config)
    /\ phase' = "manual"
    /\ UNCHANGED <<df, config, notebook>>
    /\ UNCHANGED mainVars

NotebookCell ==
    /\ phase = "input"
    /\ notebook' \in NotebookOutcomes(df, config)
    /\ phase' = "notebook"
    /\ UNCHANGED <<df, config, manual>>
    /\ UNCHANGED mainVars

(***************************************************************************)
(* Inputs.                                                                 *)
(***************************************************************************)
Config(name, file, pk, ck, mv) ==
    [name                  |-> name,
     file                  |-> file,
     description           |-> "IMDb dataset",
     primary_key           |-> pk,
     composite_key         |-> ck,
     multi_value_columns   |-> mv,
     multi_value_separator |-> IF mv = <<>> THEN None ELSE SEP]

\* the key and multi-value settings of the configs, after those of DATASETS
KeySettings ==
    {<<"tconst", <<>>, <<"genres">>>>,
     <<"tconst", <<>>, <<"directors", "genres">>>>,
     <<None, <<"tconst", "ordering">>, <<>>>>,
     <<None, <<"titleId", "ordering", "region">>, <<>>>>,
     <<None, <<>>, <<"genres", "directors">>>>,
     <<"tconst", <<"tconst", "ordering">>, <<>>>>,
     <<None, <<"ordering">>, <<>>>>}

EngineConfigs ==
    {Config("title_basics", "title.basics.tsv", k[1], k[2], k[3]) :
        k \in KeySettings}

\* the cells a column can hold
ColValues(col) ==
    CASE col = "tconst" -> {NaN, <<"x">>, <<"y">>}
      [] col = "genres" ->
             {NaN, <<>>, <<"a">>, <<"a", ",", "b">>,
              <<"a", ",", "b", ",", "c">>, <<"a", ",", ",", "b">>,
              <<"a", ",">>, <<" ", ",", "a">>}
      [] col = "directors" -> {NaN, <<"n", ",", "m">>}
      [] col = "averageRating" -> {NaN, <<"7", ".", "5">>, <<"x">>}
      [] OTHER -> {NaN, <<"1">>}

RECURSIVE RowsOver(_)
\* the rows of a DataFrame with these columns
RowsOver(cols) ==
    IF cols = <<>> THEN {<<>>}
    ELSE {<<v>> \o r : v \in ColValues(Head(cols)), r \in RowsOver(Tail(cols))}

RECURSIVE SeqsUpTo(_, _)
\* the sequences over set S of length at most n
SeqsUpTo(S, n) ==
    IF n = 0 THEN {<<>>}
    ELSE LET shorter == SeqsUpTo(S, n - 1)
         IN  shorter \cup {Append(q, x) : q \in shorter, x \in S}

Frames(cols, n) ==
    {[columns |-> cols, rows |-> rows] :
        rows \in SeqsUpTo(RowsOver(cols), IF cols = <<>> THEN 0 ELSE n)}

KeyFrames ==
    Frames(<<>>, MaxRows)
        \cup Frames(<<"tconst">>, MaxRows)
        \cup Frames(<<"tconst", "ordering">>, MaxRows)
        \cup Frames(<<"titleId", "ordering", "region">>, MaxRows)

MVFrames ==
    Frames(<<"genres">>, MaxMVRows)
        \cup Frames(<<"genres", "directors">>, MaxMVRows)

\* one column of up to MaxSampleRows cells: more rows than sample_values
\* keeps
SampleFrames == Frames(<<"averageRating">>, MaxSampleRows)

\* one column of more non-null cells than likely_numeric samples: after the
\* cells of lead, numeric cells up to row k, other cells up to row 1000 and
\* the cell last up to row n
LongFrame(lead, k, n, last) ==
    [columns |-> <<"averageRating">>,
     rows    |-> lead \o [i \in 1..n |->
                     <<IF i <= k THEN <<"7", ".", "5">>
                       ELSE IF i <= 1000 THEN <<"x">> ELSE last>>]]

LongFrames ==
    {LongFrame(lead, k, n, last) :
        lead \in {<<>>, << <<NaN>> >>}, k \in {800, 801},
        n \in 1000..LongRows, last \in {<<"7", ".", "5">>, <<"x">>}}

\* a config without keys or multi-value columns
SampleConfigs ==
    {Config("title_ratings", "title.ratings.tsv", None, <<>>, <<>>)}

\* what main() can find on disk for one dataset
RunFrames ==
    {[columns |-> <<"tconst", "genres">>, rows |-> <<>>],
     [columns |-> <<"tconst", "genres">>,
      rows |-> << <<<<"x">>, <<"a", ",", "b">>>> >>],
     [columns |-> <<"genres">>, rows |-> << << <<"a">> >> >>]}

NoFrame == [columns |-> <<>>, rows |-> <<>>]

DiskStates ==
    {[tsv |-> FALSE, gz |-> FALSE, has_header |-> FALSE, content |-> NoFrame],
     [tsv |-> TRUE, gz |-> FALSE, has_header |-> FALSE, content |-> NoFrame]}
    \cup {[tsv |-> t, gz |-> ~t, has_header |-> TRUE, content |-> f] :
             t \in BOOLEAN, f \in RunFrames}

DatasetNames ==
    <<"name_basics", "title_basics", "title_akas", "title_crew",
      "title_episode", "title_principals", "title_ratings">>

RunSettings ==
    {<<"tconst", <<>>, <<"genres">>>>, <<None, <<>>, <<"genres">>>>}

\* the catalogs of n entries, the i-th named DatasetNames[i]
Catalogs(n) ==
    {[i \in 1..n |-> Config(DatasetNames[i], DatasetNames[i],
                            k[i][1], k[i][2], k[i][3])] :
        k \in [1..n -> RunSettings]}

(***************************************************************************)
(* The profiling run: main() over a catalog and a data directory.          *)
(***************************************************************************)
Init ==
    /\ \E n \in 0..CatalogLen :
          /\ DATASETS \in Catalogs(n)
          /\ files \in [{DatasetNames[i] : i \in 1..n} -> DiskStates]
    /\ ydata_installed \in BOOLEAN
    /\ pc = "loop"
    /\ idx = 1
    /\ processed = <<>>
    /\ all_stats = <<>>
    /\ html_reports = <<>>
    /\ summary = NoSummary
    /\ exc = "none"
    /\ df = NoFrame
    /\ config = Config("none", "none", None, <<>>, <<>>)
    /\ phase = "idle"
    /\ manual = NoOutcome
    /\ notebook = NoNotebook

Next == Iterate \/ Summarise

Spec == Init /\ [][Next]_vars

(***************************************************************************)
(* The engines applied to every DataFrame and config of the bounds.        *)
(***************************************************************************)
InitEngine ==
    /\ \/ df \in KeyFrames \cup MVFrames /\ config \in EngineConfigs
       \/ df \in SampleFrames \cup LongFrames /\ config \in SampleConfigs
    /\ phase = "input"
    /\ manual = NoOutcome
    /\ notebook = NoNotebook
    /\ DATASETS = <<>>
    /\ files = <<>>
    /\ ydata_installed = FALSE
    /\ pc = "idle"
    /\ idx = 1
    /\ processed = <<>>
    /\ all_stats = <<>>
    /\ html_reports = <<>>
    /\ summary = NoSummary
    /\ exc = "none"

NextEngine == ProfileManual \/ NotebookCell

SpecEngine == InitEngine /\ [][NextEngine]_vars

(***************************************************************************)
(* Properties.                                                             *)
(***************************************************************************)
CatalogNames == [i \in DOMAIN DATASETS |-> DATASETS[i].name]

\* the catalog entries load_dataset finds on disk
FoundNames ==
    SeqFilter(CatalogNames,
              {DATASETS[i].name : i \in {j \in DOMAIN DATASETS :
                  files[DATASETS[j].file].tsv \/ files[DATASETS[j].file].gz}})

\* the catalog entries that load and profile without an exception
ProfiledNames ==
    SeqFilter(CatalogNames,
              {DATASETS[i].name : i \in {j \in DOMAIN DATASETS :
                  LET loaded == load_dataset(DATASETS[j], files)
                  IN  /\ loaded.exc = "none"
                      /\ loaded.found
                      /\ \A out \in profile_dataset_manual(
                                         DATASETS[j].name, loaded.df,
                                         DATASETS[j]) : out.exc = "none"}})

RunEnded == pc \in {"done", "aborted"}

\* C1: whatever entries the loader reports unavailable, the run visits
\* every catalog entry and finishes, and all_stats then holds exactly the
\* entries that loaded, in catalog order.
C1_SkipsUnavailable ==
    RunEnded =>
        /\ pc = "done"
        /\ processed = CatalogNames
        /\ DictKeys(all_stats) = FoundNames

\* C2: an exception raised while loading or profiling one dataset skips
\* that dataset only: the run is never aborted, every later entry is
\* processed and the other datasets' profiles are kept.
C2_FaultIsSkip ==
    /\ pc # "aborted"
    /\ pc = "done" =>
           /\ Len(processed) = Len(DATASETS)
           /\ DictKeys(all_stats) = ProfiledNames

ManualReturned == phase = "manual" /\ manual.exc = "none"

\* C3: a dataset with zero rows is profiled without an exception, with
\* row_count 0 and every column's null_percentage and cardinality_ratio 0.
C3_EmptyDataset ==
    (phase = "manual" /\ df.rows = <<>>) =>
        /\ manual.exc = "none"
        /\ manual.stats.row_count = 0
        /\ \A c \in Range(df.columns) :
               /\ manual.stats.columns[c].null_percentage = 0
               /\ manual.stats.columns[c].cardinality_ratio = 0

\* the key the config selects, as a list of columns
ChosenKey ==
    IF config.primary_key # None THEN <<config.primary_key>>
    ELSE config.composite_key

ChosenKeyPresent == \A k \in DOMAIN ChosenKey : HasColumn(df, ChosenKey[k])

\* the key of every row
RowKeys == KeyTuples(df, ChosenKey)

NullKey(key) == \E k \in DOMAIN key : IsNa(key[k])

\* rows after the first of each key, among the rows whose key has no null
NonNullDuplicates ==
    Cardinality({i \in DOMAIN RowKeys :
        /\ ~NullKey(RowKeys[i])
        /\ \E j \in 1..(i - 1) : RowKeys[j] = RowKeys[i]})

\* rows with a null in some column of the key
NullKeyRows == Cardinality({i \in DOMAIN RowKeys : NullKey(RowKeys[i])})

ManualKeyResult == ManualReturned /\ "primary_key" \in DOMAIN manual.stats

\* C4: duplicate_count is the number of rows after the first of each key,
\* counted over the rows whose key has no null component.
C4_DuplicatesSkipNulls ==
    ManualKeyResult =>
        manual.stats.primary_key.duplicate_count = NonNullDuplicates

\* C5: in both engines null_count is the number of rows with a null in at
\* least one column of the key, whatever the length of a composite key.
C5_NullCountAnyColumn ==
    /\ ManualKeyResult =>
           manual.stats.primary_key.null_count = NullKeyRows
    /\ (phase = "notebook" /\ notebook.pk_stored) =>
           notebook.pk_result.null_count = NullKeyRows

\* C6: a key validation result is valid exactly when its null count and
\* its duplicate count are both zero, and never when some row has a null
\* in a column of the key.
C6_ValidIffNoNullsNoDupes ==
    ManualKeyResult =>
        LET r == manual.stats.primary_key
        IN  /\ r.is_valid_pk <=> (r.null_count = 0 /\ r.duplicate_count = 0)
            /\ NullKeyRows > 0 => ~r.is_valid_pk

C6_Witness ==
    /\ ManualKeyResult
    /\ NullKeyRows > 0
    /\ manual.stats.primary_key.duplicate_count = 0
    /\ ~manual.stats.primary_key.is_valid_pk

\* C7: when a column of the configured key is not in the dataset, the
\* profile is still returned, with a column profile for every column and
\* without a key validation result.
C7_AbsentKeyColumn ==
    (phase = "manual" /\ ~ChosenKeyPresent) =>
        /\ manual.exc = "none"
        /\ DOMAIN manual.stats.columns = Range(df.columns)
        /\ "primary_key" \notin DOMAIN manual.stats

PresentOnly ==
    [config EXCEPT !.multi_value_columns =
        SeqFilter(config.multi_value_columns,
                  {c \in Range(config.multi_value_columns) : HasColumn(df, c)})]

\* C9: the multi-value section has exactly one entry per configured
\* multi-value column the dataset has; a configured column the dataset
\* lacks adds no entry and no error, the outcome being that of the config
\* without it.
C9_AbsentMultiValueSkipped ==
    phase = "manual" =>
        /\ PresentOnly # config =>
               manual \in profile_dataset_manual(config.name, df, PresentOnly)
        /\ manual.exc = "none" =>
               DOMAIN manual.stats.multi_value_analysis =
                   {c \in Range(config.multi_value_columns) : HasColumn(df, c)}

C9_Witness ==
    /\ ManualReturned
    /\ \E c \in Range(config.multi_value_columns) : ~HasColumn(df, c)
    /\ \E c \in Range(config.multi_value_columns) :
           /\ HasColumn(df, c)
           /\ manual.stats.multi_value_analysis[c].max_values_per_row > 1

\* C10: in both engines the per-row token counts behind min/max/avg add up
\* to the number of flattened tokens behind the distinct count and the
\* top-10.
C10_TokenCountsAgree ==
    /\ ManualReturned =>
           \A c \in DOMAIN manual.stats.multi_value_analysis :
               SeqSum(TokenCounts(df, c, SEP)) = Len(Exploded(df, c, SEP))
    /\ (phase = "notebook" /\ notebook.mv_stored) =>
           \A c \in DOMAIN notebook.mv_results :
               SeqSum(SplitLengths(df, c, SEP)) = Len(SparkExploded(df, c, SEP))

\* the position at which v is first seen in s
FirstIndex(s, v) ==
    CHOOSE i \in DOMAIN s : s[i] = v /\ \A j \in 1..(i - 1) : s[j] # v

\* top is a top-10 of the tokens of s with equal counts in first-seen order
IsFirstSeenTop10(top, s) ==
    LET shown == {top[i][1] : i \in DOMAIN top}
    IN  /\ Len(top) <= 10
        /\ Len(top) = IF Cardinality(Range(s)) <= 10
                      THEN Cardinality(Range(s)) ELSE 10
        /\ \A i \in DOMAIN top :
               top[i][1] \in Range(s) /\ top[i][2] = Occurrences(s, top[i][1])
        /\ \A i, j \in DOMAIN top :
               i < j =>
                   /\ top[i][2] >= top[j][2]
                   /\ top[i][2] = top[j][2] =>
                          FirstIndex(s, top[i][1]) < FirstIndex(s, top[j][1])
        /\ \A v \in Range(s) \ shown :
               \A i \in DOMAIN top :
                   /\ top[i][2] >= Occurrences(s, v)
                   /\ top[i][2] = Occurrences(s, v) =>
                          FirstIndex(s, top[i][1]) < FirstIndex(s, v)

\* C11: the top-10 of a multi-value column has at most 10 entries in
\* non-increasing count, holds the tokens of highest count over the
\* flattened tokens, and orders and truncates tokens of equal count by the
\* position at which they are first seen.
C11_Top10TiesFirstSeen ==
    ManualReturned =>
        \A c \in DOMAIN manual.stats.multi_value_analysis :
            IsFirstSeenTop10(manual.stats.multi_value_analysis[c].top_10_values,
                             Exploded(df, c, SEP))

\* the cell of column c in row i of df
Cell(c, i) == df.rows[i][ColIndex(df, c)]

\* the rows of df whose cell in column c is not null
NonNullRows(c) == {i \in DOMAIN df.rows : ~IsNa(Cell(c, i))}

\* the number of non-null cells of column c in rows 1..i
NonNullUpTo(c, i) == Cardinality({j \in 1..i : ~IsNa(Cell(c, j))})

\* C12: for every column profile null_count is the number of rows whose
\* cell is null and unique_count the number of distinct non-null values, so
\* null_count plus the non-null rows is row_count and unique_count is at
\* most row_count - null_count.
C12_NullAndUniqueCounts ==
    ManualReturned =>
        \A c \in Range(df.columns) :
            LET p == manual.stats.columns[c]
                non_null == NonNullRows(c)
                values == {Cell(c, i) : i \in non_null}
            IN  /\ p.null_count = Cardinality(DOMAIN df.rows \ non_null)
                /\ p.unique_count = Cardinality(values)
                /\ p.null_count + Cardinality(non_null) =
                       manual.stats.row_count
                /\ p.unique_count <= manual.stats.row_count - p.null_count

C12_Witness ==
    /\ ManualReturned
    /\ \E c \in Range(df.columns) :
           /\ manual.stats.columns[c].null_count > 1
           /\ manual.stats.columns[c].unique_count > 1
           /\ manual.stats.columns[c].unique_count < Cardinality(NonNullRows(c))

\* the row of the k-th non-null cell of column c
KthNonNullRow(c, k) ==
    CHOOSE i \in DOMAIN df.rows : ~IsNa(Cell(c, i)) /\ NonNullUpTo(c, i) = k

\* C13: sample_values is the first min(5, number of non-null rows) non-null
\* cells of the column in row order, repeated values kept.
C13_SampleValuesFirstFive ==
    ManualReturned =>
        \A c \in Range(df.columns) :
            LET sample_values == manual.stats.columns[c].sample_values
                non_null == Cardinality(NonNullRows(c))
                n == IF non_null < 5 THEN non_null ELSE 5
            IN  /\ Len(sample_values) = n
                /\ \A k \in 1..n :
                       sample_values[k] = Cell(c, KthNonNullRow(c, k))

C13_Witness ==
    /\ ManualReturned
    /\ \E c \in Range(df.columns) :
           LET sample_values == manual.stats.columns[c].sample_values
           IN  /\ Cardinality(NonNullRows(c)) > 5
               /\ Len(sample_values) = 5
               /\ IsNa(Cell(c, 2))
               /\ sample_values[1] = sample_values[3]
               /\ sample_values[1] # sample_values[2]

\* the catalog entries load_dataset returns a DataFrame for
LoadedNames ==
    SeqFilter(CatalogNames,
              {DATASETS[i].name : i \in {j \in DOMAIN DATASETS :
                  LET loaded == load_dataset(DATASETS[j], files)
                  IN  loaded.exc = "none" /\ loaded.found}})

\* C14: when the report-rendering dependency is not installed the run
\* writes no HTML report and nothing else changes: every dataset that
\* loaded has its profile in all_stats, every catalog entry is processed
\* and the summary is generated from all of these profiles.
C14_MissingReportDependency ==
    (~ydata_installed /\ RunEnded) =>
        /\ html_reports = <<>>
        /\ pc = "done"
        /\ processed = CatalogNames
        /\ DictKeys(all_stats) = LoadedNames
        /\ summary = generate_summary_markdown(all_stats)

\* the rows of the first 1000 non-null cells of column c
SampledRows(c) ==
    {i \in DOMAIN df.rows : ~IsNa(Cell(c, i)) /\ NonNullUpTo(c, i) <= 1000}

\* C15: likely_numeric is true exactly when strictly more than 80% of the
\* first min(1000, number of non-null rows) non-null cells in row order
\* parse as a number: false at exactly 80%, false without non-null cells,
\* and independent of every later cell.
C15_LikelyNumericThreshold ==
    ManualReturned =>
        \A c \in Range(df.columns) :
            LET likely_numeric == manual.stats.columns[c].likely_numeric
                sampled == SampledRows(c)
                numeric ==
                    Cardinality({i \in sampled : IsNumericStr(Cell(c, i))})
            IN  /\ likely_numeric <=> 5 * numeric > 4 * Cardinality(sampled)
                /\ 5 * numeric = 4 * Cardinality(sampled) => ~likely_numeric
                /\ sampled = {} => ~likely_numeric

\* more than 1000 non-null cells, of which at most 80% are numeric, and
\* more than 80% of the first 1000
C15_Witness ==
    /\ ManualReturned
    /\ \E c \in Range(df.columns) :
           /\ Cardinality(NonNullRows(c)) > 1000
           /\ manual.stats.columns[c].likely_numeric
           /\ 5 * Cardinality({i \in NonNullRows(c) :
                                   IsNumericStr(Cell(c, i))})
                  <= 4 * Cardinality(NonNullRows(c))

\* result a of the in-memory key block and result b of profile_primary_key
\* hold the same counts and flag
SameKeyResult(a, b) ==
    /\ a.null_count = b.null_count
    /\ a.duplicate_count = b.duplicate_count
    /\ a.is_valid_pk = b.is_valid

\* C16: for a single key or a two-column composite key the in-memory key
\* block and the distributed profile_primary_key return the same
\* null_count, duplicate_count and validity flag for the same dataset.
C16_EnginesAgreeOnKey ==
    /\ (ManualKeyResult /\ Len(ChosenKey) <= 2
            /\ PrimaryKeyRaises(df, config) = "none") =>
           SameKeyResult(manual.stats.primary_key,
                         profile_primary_key(df, config))
    /\ (phase = "notebook" /\ notebook.pk_stored /\ Len(ChosenKey) <= 2
            /\ ~ColumnLoopRaises(df) /\ ~KeyBlockRaises(df, config)) =>
           SameKeyResult(KeyBlock(df, config)["primary_key"],
                         notebook.pk_result)

====
